---- MODULE Spec2Model ----
(***************************************************************************)
(* Block-placement puzzle (src/index.tsx, and its earlier revision         *)
(* src/unnamed/part_000): the App component's game state and its event     *)
(* handlers.  The variable `variant` says which of the two revisions runs: *)
(* "index" commits a line clear in a 300 ms timeout, "part_000" clears     *)
(* inside handleDrop.                                                      *)
(*                                                                         *)
(* Arrays are 0-based in the source.  A grid is a function on 0..7; a      *)
(* shape is a tuple of tuples, so shape[r][c] of the source is             *)
(* shape[r+1][c+1] here.  previewGrid, justPlacedCells, isGameStarting and *)
(* the sounds are presentation state that no handler reads to decide       *)
(* anything about the game; they are left out.                             *)
(***************************************************************************)
EXTENDS Integers, Sequences, FiniteSets, TLC

GRID_SIZE == 8

\* The score step that earns a hammer (the literal 500 of updateScoreAndHammers).
HAMMER_STEP == 500

\* Number of accepted drops explored in one behaviour.
MaxDrops == 2

Cells == 0 .. (GRID_SIZE - 1)

\* The cells handed to handleDrop (as the origin) and to handleGridCellClick.
DropOrigins == { <<r, c>> : r \in {0, 3}, c \in {0, 3, 6} }
ClickCells == { <<0, 3>>, <<3, 3>> }

SHAPE_KEYS ==
    <<"1x1", "1x2", "2x1", "1x3", "3x1", "2x2", "L_small", "L_small_90",
      "L_small_180", "L_small_270", "T_small", "3x3">>

BLOCK_SHAPES ==
    ("1x1" :> [shape |-> <<<<1>>>>, colorIndex |-> 0]) @@
    ("1x2" :> [shape |-> <<<<1, 1>>>>, colorIndex |-> 1]) @@
    ("2x1" :> [shape |-> <<<<1>>, <<1>>>>, colorIndex |-> 1]) @@
    ("1x3" :> [shape |-> <<<<1, 1, 1>>>>, colorIndex |-> 2]) @@
    ("3x1" :> [shape |-> <<<<1>>, <<1>>, <<1>>>>, colorIndex |-> 2]) @@
    ("2x2" :> [shape |-> <<<<1, 1>>, <<1, 1>>>>, colorIndex |-> 3]) @@
    ("L_small" :> [shape |-> <<<<1, 0>>, <<1, 1>>>>, colorIndex |-> 4]) @@
    ("L_small_90" :> [shape |-> <<<<1, 1>>, <<1, 0>>>>, colorIndex |-> 4]) @@
    ("L_small_180" :> [shape |-> <<<<1, 1>>, <<0, 1>>>>, colorIndex |-> 4]) @@
    ("L_small_270" :> [shape |-> <<<<0, 1>>, <<1, 1>>>>, colorIndex |-> 4]) @@
    ("T_small" :> [shape |-> <<<<1, 1, 1>>, <<0, 1, 0>>>>, colorIndex |-> 5]) @@
    ("3x3" :> [shape |-> <<<<1, 1, 1>>, <<1, 1, 1>>, <<1, 1, 1>>>>, colorIndex |-> 6])

\* A BlockData value; `null` is the source's null draggedBlock.
BlockData(key, id) ==
    [shape |-> BLOCK_SHAPES[key].shape, colorIndex |-> BLOCK_SHAPES[key].colorIndex, id |-> id]

null == [shape |-> <<>>, colorIndex |-> -1, id |-> -1]

createEmptyGrid == [r \in Cells |-> [c \in Cells |-> 0]]

\* getRandomBlock: a block of the catalog under `key`; its id is
\* Date.now() + Math.random().  A double near 1.7e12 keeps 12 fraction bits,
\* so two draws of the same millisecond can return the same id; draws of
\* different calls of generateBlocks are milliseconds apart.  `now` counts the
\* calls of generateBlocks and `frac` is the fraction drawn.
getRandomBlock(key, now, frac) == BlockData(key, 3 * now + frac)

\* The draws of one generateBlocks call that are explored: the three keys and
\* the three fractions.
Draws ==
    { << <<"3x3", "3x3", "3x3">>, <<0, 1, 2>> >>,
      << <<"T_small", "L_small", "1x2">>, <<0, 1, 2>> >>,
      << <<"3x3", "3x3", "3x3">>, <<0, 0, 1>> >> }

\* generateBlocks: the hands one call can return.
generateBlocks(now) ==
    { << getRandomBlock(d[1][1], now, d[2][1]),
         getRandomBlock(d[1][2], now, d[2][2]),
         getRandomBlock(d[1][3], now, d[2][3]) >> : d \in Draws }

VARIABLES
    variant,             \* "index" or "part_000"
    mounted,             \* the mount effect (useEffect -> resetGame) has run
    grid,
    blocks,
    score,
    isGameOver,
    draggedBlock,
    hammers,
    isHammerModeActive,
    clearingCells,       \* the cells of a line clear being animated (index only)
    timers,              \* pending clear timeouts, oldest first: their closures
    now,                 \* the millisecond of the next generateBlocks call
    drops,               \* accepted drops so far (bounds the exploration)
    lastOp,              \* the handler that ran last and the branch it took
    sync,                \* SpecBoth: the state of src/unnamed/part_000 run on
                         \* the same gestures; <<>> where one revision runs
    hammerUses,          \* history: the hammer applications to occupied cells
                         \* since the last reset
    dropGain             \* history: the points and hammers added by the score
                         \* updates of the drop that the last step finished
                         \* (0 after any other step), and of the drops whose
                         \* clear is pending

vars ==
    << variant, mounted, grid, blocks, score, isGameOver, draggedBlock, hammers,
       isHammerModeActive, clearingCells, timers, now, drops, lastOp, sync,
       hammerUses, dropGain >>

----------------------------------------------------------------------------
\* Pure helpers of the handlers

ShapeRows(block) == Len(block.shape)
ShapeCols(block) == Len(block.shape[1])

\* canPlaceBlock without its test of the target cell.
RECURSIVE canPlaceFromBoundsOnly(_, _, _, _, _)
canPlaceFromBoundsOnly(block, row, col, currentGrid, k) ==
    IF k >= ShapeRows(block) * ShapeCols(block) THEN TRUE
    ELSE LET r == k \div ShapeCols(block)
             c == k % ShapeCols(block)
         IN  IF block.shape[r + 1][c + 1] # 0
             THEN IF row + r >= GRID_SIZE \/ col + c >= GRID_SIZE
                  THEN FALSE
                  ELSE canPlaceFromBoundsOnly(block, row, col, currentGrid, k + 1)
             ELSE canPlaceFromBoundsOnly(block, row, col, currentGrid, k + 1)

\* The double loop of canPlaceBlock from cell number k on (row-major), with
\* its early return.
RECURSIVE canPlaceFrom(_, _, _, _, _)
canPlaceFrom(block, row, col, currentGrid, k) ==
    IF k >= ShapeRows(block) * ShapeCols(block) THEN TRUE
    ELSE LET r == k \div ShapeCols(block)
             c == k % ShapeCols(block)
             newRow == row + r
             newCol == col + c
         IN  IF block.shape[r + 1][c + 1] # 0
             THEN IF \/ newRow >= GRID_SIZE
                     \/ newCol >= GRID_SIZE
                     \/ currentGrid[newRow][newCol] # 0
                  THEN FALSE
                  ELSE canPlaceFrom(block, row, col, currentGrid, k + 1)
             ELSE canPlaceFrom(block, row, col, currentGrid, k + 1)

canPlaceBlock(block, row, col, currentGrid) ==
    IF block = null THEN FALSE
    ELSE canPlaceFrom(block, row, col, currentGrid, 0)

\* checkGameOver with the test of its early return inverted.
checkGameOverInverted(currentGrid, currentBlocks) ==
    IF Len(currentBlocks) = 0 THEN FALSE
    ELSE \E i \in 1 .. Len(currentBlocks) :
           \E r \in Cells : \E c \in Cells :
              ~canPlaceBlock(currentBlocks[i], r, c, currentGrid)

\* checkGameOver: false on an empty hand, else true iff no block fits anywhere.
checkGameOver(currentGrid, currentBlocks) ==
    IF Len(currentBlocks) = 0 THEN FALSE
    ELSE ~ \E i \in 1 .. Len(currentBlocks) :
             \E r \in Cells : \E c \in Cells :
                canPlaceBlock(currentBlocks[i], r, c, currentGrid)

\* The placement loop of handleDrop from cell number k on: writes
\* colorIndex + 1 into newGrid for every filled cell of the shape.
RECURSIVE placeFrom(_, _, _, _, _)
placeFrom(block, row, col, newGrid, k) ==
    IF k >= ShapeRows(block) * ShapeCols(block) THEN newGrid
    ELSE LET r == k \div ShapeCols(block)
             c == k % ShapeCols(block)
         IN  IF block.shape[r + 1][c + 1] # 0
             THEN placeFrom(block, row, col,
                            [newGrid EXCEPT ![row + r][col + c] = block.colorIndex + 1],
                            k + 1)
             ELSE placeFrom(block, row, col, newGrid, k + 1)

\* The placement loop writing newGrid[row + c][col + r].
placedGridTransposed(block, row, col, currentGrid) ==
    [r \in Cells |-> [c \in Cells |->
        IF /\ c - col \in 0 .. (ShapeRows(block) - 1)
           /\ r - row \in 0 .. (ShapeCols(block) - 1)
           /\ block.shape[(c - col) + 1][(r - row) + 1] # 0
        THEN block.colorIndex + 1
        ELSE currentGrid[r][c]]]

\* The placement loop writing the colour's place in BLOCK_COLORS counted from 2.
placedGridColourOff(block, row, col, currentGrid) ==
    [r \in Cells |-> [c \in Cells |->
        IF /\ r - row \in 0 .. (ShapeRows(block) - 1)
           /\ c - col \in 0 .. (ShapeCols(block) - 1)
           /\ block.shape[(r - row) + 1][(c - col) + 1] # 0
        THEN block.colorIndex + 2
        ELSE currentGrid[r][c]]]

placedGrid(block, row, col, currentGrid) == placeFrom(block, row, col, currentGrid, 0)

\* placementPoints: one per filled cell written.
RECURSIVE pointsFrom(_, _)
pointsFrom(block, k) ==
    IF k >= ShapeRows(block) * ShapeCols(block) THEN 0
    ELSE (IF block.shape[(k \div ShapeCols(block)) + 1][(k % ShapeCols(block)) + 1] # 0
          THEN 1 ELSE 0) + pointsFrom(block, k + 1)

placementPoints(block) == pointsFrom(block, 0)

rowsToClear(newGrid) == { i \in Cells : \A c \in Cells : newGrid[i][c] > 0 }

\* The line detection with its loop over the columns started at 1.
colsToClearFromOne(newGrid) ==
    { i \in Cells \ {0} : \A r \in Cells : newGrid[r][i] > 0 }

colsToClear(newGrid) == { i \in Cells : \A r \in Cells : newGrid[r][i] > 0 }

\* gridAfterClears without its pass over the columns.
gridAfterClearsRowsOnly(newGrid, rows, cols) ==
    [r \in Cells |-> [c \in Cells |-> IF r \in rows THEN 0 ELSE newGrid[r][c]]]

\* gridAfterClears: the listed rows replaced by zero rows, then the listed
\* columns zeroed in every row.
gridAfterClears(newGrid, rows, cols) ==
    [r \in Cells |-> [c \in Cells |->
        IF r \in rows \/ c \in cols THEN 0 ELSE newGrid[r][c]]]

\* cellsToAnimate, as a set of <<r, c>>.
cellsToAnimate(rows, cols) ==
    { <<r, c>> : r \in rows, c \in Cells } \cup { <<r, c>> : r \in Cells, c \in cols }

\* updateScoreAndHammers: the score after adding the points, and the hammers
\* after adding the thresholds crossed.
newScoreOfSubtracting(prev, pointsToAdd) == prev - pointsToAdd

newScoreOf(prev, pointsToAdd) == prev + pointsToAdd

\* updateScoreAndHammers with Math.round for Math.floor.
newHammersOfRounded(h, prev, pointsToAdd) ==
    LET newScore == prev + pointsToAdd
        oldThreshold == (2 * prev + HAMMER_STEP) \div (2 * HAMMER_STEP)
        newThreshold == (2 * newScore + HAMMER_STEP) \div (2 * HAMMER_STEP)
    IN  IF newThreshold > oldThreshold THEN h + (newThreshold - oldThreshold) ELSE h

newHammersOf(h, prev, pointsToAdd) ==
    LET newScore == prev + pointsToAdd
        oldThreshold == prev \div HAMMER_STEP
        newThreshold == newScore \div HAMMER_STEP
    IN  IF newThreshold > oldThreshold THEN h + (newThreshold - oldThreshold) ELSE h

\* The points of a clear: linesCleared * 10 * linesCleared.
clearPointsLinear(linesCleared) == linesCleared * 10

\* linesCleared * 10 * linesCleared with one factor too many.
clearPointsCubic(linesCleared) == linesCleared * 10 * linesCleared * linesCleared

clearPoints(linesCleared) == linesCleared * 10 * linesCleared

\* blocks.filter(b => b.id !== draggedBlock.id)
RECURSIVE filterOut(_, _)
filterOut(bs, id) ==
    IF bs = <<>> THEN <<>>
    ELSE IF Head(bs).id # id THEN <<Head(bs)>> \o filterOut(Tail(bs), id)
         ELSE filterOut(Tail(bs), id)

----------------------------------------------------------------------------
\* Initial states

\* One drop of a block of the catalog at (row, col) followed by its clear
\* commit, on the part of the state a played game leaves behind.  m is
\* <<key, row, col>>.
playMove(st, m) ==
    LET block == BlockData(m[1], 0)
        newGrid == placedGrid(block, m[2], m[3], st.grid)
        rows == rowsToClear(newGrid)
        cols == colsToClear(newGrid)
        linesCleared == Cardinality(rows) + Cardinality(cols)
        placed == placementPoints(block)
        bonus == clearPoints(linesCleared)
    IN  [grid |-> gridAfterClears(newGrid, rows, cols),
         score |-> newScoreOf(newScoreOf(st.score, placed), bonus),
         hammers |-> newHammersOf(newHammersOf(st.hammers, st.score, placed),
                                  newScoreOf(st.score, placed), bonus),
         legal |-> st.legal /\ canPlaceBlock(block, m[2], m[3], st.grid)]

RECURSIVE playMoves(_, _)
playMoves(st, moves) ==
    IF moves = <<>> THEN st
    ELSE LET next == playMove(st, Head(moves))
         IN  IF next.legal THEN playMoves(next, Tail(moves)) ELSE next

\* The game right after resetGame.
newGame == [grid |-> createEmptyGrid, score |-> 0, hammers |-> 1, legal |-> TRUE]

\* Seven drops that fill rows 0-2 and columns 0-2 and clear the six lines at
\* once: 39 cells + 10 * 6 * 6 = 399 points, grid empty again.
SixLines ==
    << <<"3x3", 0, 3>>, <<"3x1", 0, 6>>, <<"3x1", 0, 7>>,
       <<"3x3", 3, 0>>, <<"1x3", 6, 0>>, <<"1x3", 7, 0>>, <<"3x3", 0, 0>> >>

\* Three drops that fill and clear row 0: 8 + 10 = 18 points, grid empty again.
OneRow == << <<"1x3", 0, 0>>, <<"1x3", 0, 3>>, <<"1x2", 0, 6>> >>

\* Six drops that fill row 0 and column 0 except their common cell (0, 0).
OpenCross ==
    << <<"1x3", 0, 1>>, <<"1x3", 0, 4>>, <<"1x1", 0, 7>>,
       <<"3x1", 1, 0>>, <<"3x1", 4, 0>>, <<"1x1", 7, 0>> >>

\* Three drops that leave room for one more 3x3 block only at (3, 3).
ThreeBig == << <<"3x3", 0, 0>>, <<"3x3", 0, 3>>, <<"3x3", 3, 0>> >>

\* Ten drops that fill column 0 except (0, 0) and row 3 except (3, 3) and
\* (3, 6), and leave no room for a 3x3 block: 17 points, no line cleared.
Crowded ==
    << <<"2x1", 1, 0>>, <<"1x3", 3, 0>>, <<"3x1", 4, 0>>, <<"1x1", 7, 0>>,
       <<"1x2", 3, 4>>, <<"1x1", 3, 7>>, <<"1x2", 0, 2>>, <<"1x1", 0, 5>>,
       <<"1x1", 5, 2>>, <<"1x1", 5, 5>> >>

\* The six drops of SixLines before its last one: rows 0 to 2 and columns 0
\* to 2 lack only their common 3x3 corner.
BeforeSixLines == SubSeq(SixLines, 1, 6)

\* Games under way that the mounted initial states resume: the moves played
\* since resetGame, and the keys of the blocks left in the hand (the rest of
\* the hand drawn last: 3 - n % 3 blocks after n drops).
Played ==
    { [moves |-> SixLines \o OneRow \o OneRow \o OneRow \o OpenCross,
       hand |-> <<"1x1", "3x3">>],
      [moves |-> SixLines \o OneRow \o OneRow \o OneRow \o OneRow \o OneRow,
       hand |-> <<"3x3", "3x3">>],
      [moves |-> ThreeBig,
       hand |-> <<"3x3", "3x3", "3x3">>],
      [moves |-> Crowded,
       hand |-> <<"1x1", "3x3">>] }

\* Two more games under way: one drop before a clear of three rows and three
\* columns that takes the score from 429 over 500, and a game that a hammer
\* and one drop end.
PlayedHigh ==
    { [moves |-> SixLines \o BeforeSixLines,
       hand |-> <<"3x3", "1x1">>],
      [moves |-> ThreeBig,
       hand |-> <<"3x3", "3x3">>] }

handOf(keys) == [i \in 1 .. Len(keys) |-> getRandomBlock(keys[i], 0, i - 1)]

Variants == {"index", "part_000"}

\* No drop has been made in the session.
noGain == [points |-> 0, raised |-> 0, pending |-> <<>>]

InitFrom(games) ==
    /\ variant \in Variants
    /\ sync = <<>>
    /\ hammerUses = 0
    /\ dropGain = noGain
    /\ isGameOver = FALSE
    /\ draggedBlock = null
    /\ isHammerModeActive = FALSE
    /\ clearingCells = {}
    /\ timers = <<>>
    /\ drops = 0
    /\ \/ /\ mounted = FALSE          \* useState initialisers, before the effect
          /\ grid = createEmptyGrid
          /\ blocks = <<>>
          /\ score = 0
          /\ hammers = 1
          /\ now = 0
          /\ lastOp = "construct"
       \/ \E p \in games  :           \* a game under way
          LET st == playMoves(newGame, p.moves)
          IN  /\ mounted = TRUE
              /\ grid = st.grid
              /\ blocks = handOf(p.hand)
              /\ score = st.score
              /\ hammers = st.hammers
              /\ now = 1
              /\ lastOp = "resume"

Init == InitFrom(Played)

----------------------------------------------------------------------------
\* Handlers

\* resetGame without its call setHammers(1).
resetGameKeepingHammers ==
    /\ grid' = createEmptyGrid
    /\ blocks' \in generateBlocks(now)
    /\ now' = now + 1
    /\ score' = 0
    /\ isGameOver' = FALSE
    /\ hammers' = hammers
    /\ isHammerModeActive' = FALSE
    /\ clearingCells' = {}
    /\ UNCHANGED << variant, draggedBlock, timers, drops >>

\* resetGame: a pending clear timeout is not cancelled, draggedBlock is kept.
resetGame ==
    /\ grid' = createEmptyGrid
    /\ blocks' \in generateBlocks(now)
    /\ now' = now + 1
    /\ score' = 0
    /\ isGameOver' = FALSE
    /\ hammers' = 1
    /\ isHammerModeActive' = FALSE
    /\ clearingCells' = {}
    /\ UNCHANGED << variant, draggedBlock, timers, drops >>

\* useEffect(() => resetGame(), [resetGame]) after the first render.
Mount ==
    /\ ~mounted
    /\ mounted' = TRUE
    /\ resetGame
    /\ lastOp' = "reset"

\* The restart button exists only in the game-over overlay.
handleRestartClick ==
    /\ mounted
    /\ isGameOver
    /\ resetGame
    /\ lastOp' = "reset"
    /\ UNCHANGED mounted

handleDragStart(i) ==
    /\ mounted
    /\ i \in 1 .. Len(blocks)
    /\ draggedBlock' = blocks[i]
    /\ lastOp' = "dragstart"
    /\ UNCHANGED << variant, mounted, grid, blocks, score, isGameOver, hammers,
                    isHammerModeActive, clearingCells, timers, now, drops >>

\* onDragEnd exists in index.tsx only; the browser may never deliver it.
handleDragEnd ==
    /\ mounted
    /\ variant = "index"
    /\ draggedBlock # null
    /\ draggedBlock' = null
    /\ lastOp' = "dragend"
    /\ UNCHANGED << variant, mounted, grid, blocks, score, isGameOver, hammers,
                    isHammerModeActive, clearingCells, timers, now, drops >>

\* The guard of handleDrop without its call of canPlaceBlock.
dropAcceptedUnchecked(row, col) ==
    ~ ( \/ draggedBlock = null
        \/ isHammerModeActive
        \/ (variant = "index" /\ Cardinality(clearingCells) > 0) )

\* The guard of handleDrop: TRUE when the drop is accepted.
dropAccepted(row, col) ==
    ~ ( \/ draggedBlock = null
        \/ ~canPlaceBlock(draggedBlock, row, col, grid)
        \/ isHammerModeActive
        \/ (variant = "index" /\ Cardinality(clearingCells) > 0) )

\* handleDrop of src/index.tsx, accepted.
dropIndex(row, col) ==
    LET newGrid == placedGrid(draggedBlock, row, col, grid)
        points == placementPoints(draggedBlock)
        nextBlocks == filterOut(blocks, draggedBlock.id)
        shouldGenerateNewBlocks == Len(nextBlocks) = 0
        rows == rowsToClear(newGrid)
        cols == colsToClear(newGrid)
    IN  /\ grid' = newGrid
        /\ score' = newScoreOf(score, points)
        /\ hammers' = newHammersOf(hammers, score, points)
        /\ IF Cardinality(rows) > 0 \/ Cardinality(cols) > 0
           THEN /\ clearingCells' = cellsToAnimate(rows, cols)
                /\ timers' = Append(timers,
                                [newGrid |-> newGrid, rowsToClear |-> rows,
                                 colsToClear |-> cols, nextBlocks |-> nextBlocks,
                                 shouldGenerateNewBlocks |-> shouldGenerateNewBlocks])
                /\ lastOp' = "drop_clearing"
                /\ UNCHANGED << blocks, isGameOver, now >>
           ELSE /\ IF shouldGenerateNewBlocks
                   THEN blocks' \in generateBlocks(now) /\ now' = now + 1
                   ELSE blocks' = nextBlocks /\ now' = now
                /\ isGameOver' = (isGameOver \/ checkGameOver(newGrid, blocks'))
                /\ lastOp' = "drop_placed"
                /\ UNCHANGED << clearingCells, timers >>
        /\ UNCHANGED << draggedBlock, isHammerModeActive >>

\* handleDrop of src/unnamed/part_000, accepted.
dropPart000(row, col) ==
    LET newGrid == placedGrid(draggedBlock, row, col, grid)
        rows == rowsToClear(newGrid)
        cols == colsToClear(newGrid)
        linesCleared == Cardinality(rows) + Cardinality(cols)
        points == placementPoints(draggedBlock)
                    + (IF linesCleared > 0 THEN clearPoints(linesCleared) ELSE 0)
        cleared == IF linesCleared > 0 THEN gridAfterClears(newGrid, rows, cols)
                   ELSE newGrid
        newBlocks == filterOut(blocks, draggedBlock.id)
    IN  /\ grid' = cleared
        /\ score' = newScoreOf(score, points)
        /\ hammers' = newHammersOf(hammers, score, points)
        /\ IF Len(newBlocks) = 0
           THEN blocks' \in generateBlocks(now) /\ now' = now + 1
           ELSE blocks' = newBlocks /\ now' = now
        /\ draggedBlock' = null
        /\ isGameOver' = (isGameOver \/ checkGameOver(cleared, blocks'))
        /\ lastOp' = IF linesCleared > 0 THEN "drop_cleared" ELSE "drop_placed"
        /\ UNCHANGED << isHammerModeActive, clearingCells, timers >>

handleDrop(row, col) ==
    /\ mounted
    /\ drops < MaxDrops
    /\ IF dropAccepted(row, col)
       THEN /\ drops' = drops + 1
            /\ IF variant = "index" THEN dropIndex(row, col) ELSE dropPart000(row, col)
       ELSE /\ lastOp' = "drop_rejected"
            /\ UNCHANGED << grid, blocks, score, isGameOver, draggedBlock, hammers,
                            isHammerModeActive, clearingCells, timers, now, drops >>
    /\ UNCHANGED << variant, mounted >>

\* The callback of setTimeout without its call setClearingCells([]).
clearTimeoutKeepsCells ==
    /\ timers # <<>>
    /\ LET t == Head(timers)
           cleared == gridAfterClears(t.newGrid, t.rowsToClear, t.colsToClear)
           linesCleared == Cardinality(t.rowsToClear) + Cardinality(t.colsToClear)
           points == clearPoints(linesCleared)
       IN  /\ grid' = cleared
           /\ clearingCells' = clearingCells
           /\ score' = newScoreOf(score, points)
           /\ hammers' = newHammersOf(hammers, score, points)
           /\ IF t.shouldGenerateNewBlocks
              THEN blocks' \in generateBlocks(now) /\ now' = now + 1
              ELSE blocks' = t.nextBlocks /\ now' = now
           /\ isGameOver' = (isGameOver \/ checkGameOver(cleared, blocks'))
    /\ timers' = Tail(timers)
    /\ lastOp' = "clear_commit"
    /\ UNCHANGED << variant, mounted, draggedBlock, isHammerModeActive, drops >>

\* The callback of setTimeout(..., 300) in handleDrop (index.tsx): it works on
\* the values its closure captured at the drop.
clearTimeout ==
    /\ timers # <<>>
    /\ LET t == Head(timers)
           cleared == gridAfterClears(t.newGrid, t.rowsToClear, t.colsToClear)
           linesCleared == Cardinality(t.rowsToClear) + Cardinality(t.colsToClear)
           points == clearPoints(linesCleared)
       IN  /\ grid' = cleared
           /\ clearingCells' = {}
           /\ score' = newScoreOf(score, points)
           /\ hammers' = newHammersOf(hammers, score, points)
           /\ IF t.shouldGenerateNewBlocks
              THEN blocks' \in generateBlocks(now) /\ now' = now + 1
              ELSE blocks' = t.nextBlocks /\ now' = now
           /\ isGameOver' = (isGameOver \/ checkGameOver(cleared, blocks'))
    /\ timers' = Tail(timers)
    /\ lastOp' = "clear_commit"
    /\ UNCHANGED << variant, mounted, draggedBlock, isHammerModeActive, drops >>

\* handleHammerClick without its test of hammers > 0.
handleHammerClickUnguarded ==
    /\ mounted
    /\ isHammerModeActive' = ~isHammerModeActive
    /\ lastOp' = (IF hammers > 0 THEN "hammer_toggle" ELSE "hammer_disabled")
    /\ UNCHANGED << variant, mounted, grid, blocks, score, isGameOver, draggedBlock,
                    hammers, clearingCells, timers, now, drops >>

handleHammerClick ==
    /\ mounted
    /\ IF hammers > 0
       THEN isHammerModeActive' = ~isHammerModeActive /\ lastOp' = "hammer_toggle"
       ELSE isHammerModeActive' = isHammerModeActive /\ lastOp' = "hammer_disabled"
    /\ UNCHANGED << variant, mounted, grid, blocks, score, isGameOver, draggedBlock,
                    hammers, clearingCells, timers, now, drops >>

\* handleGridCellClick destroying the whole row of the cell.
handleGridCellClickWholeRow(row, col) ==
    /\ mounted
    /\ IF isHammerModeActive /\ grid[row][col] > 0
       THEN /\ grid' = [grid EXCEPT ![row] = [c \in Cells |-> 0]]
            /\ hammers' = hammers - 1
            /\ isHammerModeActive' = FALSE
            /\ lastOp' = "hammer_hit"
       ELSE IF isHammerModeActive
            THEN /\ isHammerModeActive' = FALSE
                 /\ lastOp' = "hammer_miss"
                 /\ UNCHANGED << grid, hammers >>
            ELSE /\ lastOp' = "click_idle"
                 /\ UNCHANGED << grid, hammers, isHammerModeActive >>
    /\ UNCHANGED << variant, mounted, blocks, score, isGameOver, draggedBlock,
                    clearingCells, timers, now, drops >>

\* handleGridCellClick taking a hammer for a click on an empty cell too.
handleGridCellClickMissCosts(row, col) ==
    /\ mounted
    /\ IF isHammerModeActive
       THEN /\ grid' = [grid EXCEPT ![row][col] = 0]
            /\ hammers' = hammers - 1
            /\ isHammerModeActive' = FALSE
            /\ lastOp' = (IF grid[row][col] > 0 THEN "hammer_hit" ELSE "hammer_miss")
       ELSE /\ lastOp' = "click_idle"
            /\ UNCHANGED << grid, hammers, isHammerModeActive >>
    /\ UNCHANGED << variant, mounted, blocks, score, isGameOver, draggedBlock,
                    clearingCells, timers, now, drops >>

\* handleGridCellClick whose hit leaves hammer mode on.
handleGridCellClickStaysActive(row, col) ==
    /\ mounted
    /\ IF isHammerModeActive /\ grid[row][col] > 0
       THEN /\ grid' = [grid EXCEPT ![row][col] = 0]
            /\ hammers' = hammers - 1
            /\ lastOp' = "hammer_hit"
            /\ UNCHANGED isHammerModeActive
       ELSE IF isHammerModeActive
            THEN /\ isHammerModeActive' = FALSE
                 /\ lastOp' = "hammer_miss"
                 /\ UNCHANGED << grid, hammers >>
            ELSE /\ lastOp' = "click_idle"
                 /\ UNCHANGED << grid, hammers, isHammerModeActive >>
    /\ UNCHANGED << variant, mounted, blocks, score, isGameOver, draggedBlock,
                    clearingCells, timers, now, drops >>

handleGridCellClick(row, col) ==
    /\ mounted
    /\ IF isHammerModeActive /\ grid[row][col] > 0
       THEN /\ grid' = [grid EXCEPT ![row][col] = 0]
            /\ hammers' = hammers - 1
            /\ isHammerModeActive' = FALSE
            /\ lastOp' = "hammer_hit"
       ELSE IF isHammerModeActive
            THEN /\ isHammerModeActive' = FALSE
                 /\ lastOp' = "hammer_miss"
                 /\ UNCHANGED << grid, hammers >>
            ELSE /\ lastOp' = "click_idle"
                 /\ UNCHANGED << grid, hammers, isHammerModeActive >>
    /\ UNCHANGED << variant, mounted, blocks, score, isGameOver, draggedBlock,
                    clearingCells, timers, now, drops >>

\* 1 when a click on the cell applies the hammer (first branch of
\* handleGridCellClick), 0 otherwise.
applied(row, col) == IF isHammerModeActive /\ grid[row][col] > 0 THEN 1 ELSE 0

\* A step that adds nothing to the score: the figures of the drop finished
\* before it are dropped, those of the pending clears wait on.
gainKept == dropGain' = [points |-> 0, raised |-> 0, pending |-> dropGain.pending]

\* What the score updates of an accepted drop add: the drop's own update
\* (updateScoreAndHammers(placementPoints) in index.tsx, the combined update
\* in part_000); it waits for the commit when the drop scheduled a clear.
gainOfDrop(row, col) ==
    IF ~dropAccepted(row, col)
    THEN gainKept
    ELSE LET g == [points |-> score' - score, raised |-> hammers' - hammers]
         IN  IF Len(timers') > Len(timers)
             THEN dropGain' = [dropGain EXCEPT !.pending = Append(@, g)]
             ELSE dropGain' = [dropGain EXCEPT !.points = g.points,
                                                !.raised = g.raised]

\* The commit's update, updateScoreAndHammers(linesCleared * 10 *
\* linesCleared), added to what the drop of that clear gained.
gainOfCommit ==
    LET g == Head(dropGain.pending)
    IN  dropGain' = [points  |-> g.points + (score' - score),
                     raised  |-> g.raised + (hammers' - hammers),
                     pending |-> Tail(dropGain.pending)]

Next ==
    \/ Mount /\ gainKept /\ UNCHANGED sync /\ hammerUses' = 0
    \/ handleRestartClick /\ gainKept /\ UNCHANGED sync /\ hammerUses' = 0
    \/ \E i \in 1 .. 3 : handleDragStart(i) /\ gainKept /\ UNCHANGED << sync, hammerUses >>
    \/ handleDragEnd /\ gainKept /\ UNCHANGED << sync, hammerUses >>
    \/ \E o \in DropOrigins :
          /\ handleDrop(o[1], o[2])
          /\ gainOfDrop(o[1], o[2])
          /\ UNCHANGED << sync, hammerUses >>
    \/ clearTimeout /\ gainOfCommit /\ UNCHANGED << sync, hammerUses >>
    \/ handleHammerClick /\ gainKept /\ UNCHANGED << sync, hammerUses >>
    \/ \E o \in ClickCells :
          /\ handleGridCellClick(o[1], o[2])
          /\ hammerUses' = hammerUses + applied(o[1], o[2])
          /\ gainKept /\ UNCHANGED sync

Spec == Init /\ [][Next]_vars

----------------------------------------------------------------------------
\* Vocabulary of the claims

\* The blocks of the catalog (ids play no part in placement).
Catalog == { BlockData(SHAPE_KEYS[i], 0) : i \in 1 .. Len(SHAPE_KEYS) }

\* The filled cells of a shape, as 0-based offsets <<r, c>>.
FilledCells(shape) ==
    { <<r, c>> \in (0 .. 2) \X (0 .. 2) :
        r < Len(shape) /\ c < Len(shape[1]) /\ shape[r + 1][c + 1] = 1 }

\* Every filled cell of the shape, put at (row, col), is inside the grid and
\* empty in g.
Fits(shape, row, col, g) ==
    \A f \in FilledCells(shape) :
        /\ row + f[1] \in Cells
        /\ col + f[2] \in Cells
        /\ g[row + f[1]][col + f[2]] = 0

\* canPlaceBlock on its own: every block of the catalog is dragged over the
\* grid of each game under way and dropped; the drops change the grid on.
InitCanPlace ==
    /\ variant \in Variants
    /\ sync = <<>>
    /\ hammerUses = 0
    /\ dropGain = noGain
    /\ mounted = TRUE
    /\ isGameOver = FALSE
    /\ isHammerModeActive = FALSE
    /\ clearingCells = {}
    /\ timers = <<>>
    /\ drops = 0
    /\ now = 1
    /\ lastOp = "dragstart"
    /\ \E p \in Played : \E i \in 1 .. Len(SHAPE_KEYS) :
          LET st == playMoves(newGame, p.moves)
          IN  /\ grid = st.grid
              /\ score = st.score
              /\ hammers = st.hammers
              /\ blocks = handOf(<<SHAPE_KEYS[i]>> \o Tail(p.hand))
              /\ draggedBlock = blocks[1]

NextCanPlace ==
    \E o \in DropOrigins :
        /\ handleDrop(o[1], o[2])
        /\ gainOfDrop(o[1], o[2])
        /\ UNCHANGED << sync, hammerUses >>

SpecCanPlace == InitCanPlace /\ [][NextCanPlace]_vars

\* C1: canPlaceBlock(block, row, col, grid) is true if and only if every filled
\* cell (r, c) of the block's shape maps to a cell (row + r, col + c) that lies
\* within [0, 8) on both axes and is empty in grid; for every shape of the
\* catalog, every origin of the grid and every grid reached.
C1_CanPlaceIffFits ==
    \A b \in Catalog : \A row \in Cells : \A col \in Cells :
        canPlaceBlock(b, row, col, grid) <=> Fits(b.shape, row, col, grid)

\* A drop was refused by canPlaceBlock alone, on a grid where the dragged block
\* fits somewhere else and is kept out of an origin, at which it would stay
\* inside the grid, by an occupied cell.
C1_Witness ==
    /\ lastOp = "drop_rejected"
    /\ draggedBlock # null
    /\ ~isHammerModeActive
    /\ clearingCells = {}
    /\ \E row \in Cells : \E col \in Cells : canPlaceBlock(draggedBlock, row, col, grid)
    /\ \E row \in Cells : \E col \in Cells :
          /\ ~canPlaceBlock(draggedBlock, row, col, grid)
          /\ row + ShapeRows(draggedBlock) <= GRID_SIZE
          /\ col + ShapeCols(draggedBlock) <= GRID_SIZE

\* The steps of the game that the claims speak of.
AcceptedDrop(row, col) ==
    drops' = drops + 1 /\ dropAccepted(row, col) /\ handleDrop(row, col)

RejectedDrop(row, col) ==
    lastOp' = "drop_rejected" /\ ~dropAccepted(row, col) /\ handleDrop(row, col)

ResetStep == Mount \/ handleRestartClick

\* The cell (r, c) is covered by a filled cell of the block put at (row, col).
Covers(block, row, col, r, c) == <<r - row, c - col>> \in FilledCells(block.shape)

\* The post-placement (pre-clear) grid of an accepted drop: the grid that
\* index.tsx commits at the drop, the local newGrid in part_000.
PostPlacement(row, col) ==
    IF variant = "index" THEN grid' ELSE placedGrid(draggedBlock, row, col, grid)

\* C2: an accepted drop writes colorIndex + 1 into exactly the cells covered by
\* filled cells of the dragged shape: every written cell is inside the grid and
\* was 0 before the drop, and every other cell of the post-placement grid
\* equals its value before the drop.
C2_DropWritesExactlyTheShape ==
    [][ \A o \in DropOrigins :
          AcceptedDrop(o[1], o[2]) =>
            LET post == PostPlacement(o[1], o[2])
            IN  /\ \A f \in FilledCells(draggedBlock.shape) :
                      /\ o[1] + f[1] \in Cells
                      /\ o[2] + f[2] \in Cells
                      /\ grid[o[1] + f[1]][o[2] + f[2]] = 0
                /\ \A r \in Cells : \A c \in Cells :
                      post[r][c] = IF Covers(draggedBlock, o[1], o[2], r, c)
                                   THEN draggedBlock.colorIndex + 1
                                   ELSE grid[r][c] ]_vars

\* A T block (a shape with unfilled corners) has just been placed next to
\* cells placed before.
C2_Witness ==
    /\ lastOp = "drop_placed"
    /\ variant = "index"
    /\ draggedBlock.shape = BLOCK_SHAPES["T_small"].shape
    /\ \E r \in Cells : \E c \in Cells : grid[r][c] = BLOCK_SHAPES["T_small"].colorIndex + 1
    /\ \E r \in Cells : \E c \in Cells :
          grid[r][c] \notin {0, BLOCK_SHAPES["T_small"].colorIndex + 1}

\* The rows and the columns of g whose 8 cells are all non-zero.
FullRows(g) == { r \in Cells : \A c \in Cells : g[r][c] # 0 }
FullCols(g) == { c \in Cells : \A r \in Cells : g[r][c] # 0 }

\* g with the full rows and full columns of g zeroed, every other cell kept.
Cleared(g) ==
    LET rows == FullRows(g)
        cols == FullCols(g)
    IN  [r \in Cells |-> [c \in Cells |->
            IF r \in rows \/ c \in cols THEN 0 ELSE g[r][c]]]

\* C3: after an accepted drop the rows and columns cleared are exactly the
\* full rows and full columns of the post-placement grid; the committed
\* post-clear grid has 0 in every cell of those rows and columns and keeps the
\* post-placement value in every other cell.  (In index.tsx the drop schedules
\* the clear of exactly those lines and the timeout commits it; without a full
\* line nothing is scheduled.)
C3_ClearsExactlyFullLines ==
    [][ /\ \A o \in DropOrigins :
             AcceptedDrop(o[1], o[2]) =>
               LET post == PostPlacement(o[1], o[2])
                   lines == FullRows(post) \cup FullCols(post)
               IN  IF variant = "index"
                   THEN IF lines = {}
                        THEN timers' = timers /\ clearingCells' = {}
                        ELSE /\ Len(timers') = Len(timers) + 1
                             /\ timers'[Len(timers')].newGrid = post
                             /\ timers'[Len(timers')].rowsToClear = FullRows(post)
                             /\ timers'[Len(timers')].colsToClear = FullCols(post)
                             /\ clearingCells' =
                                  { <<r, c>> \in Cells \X Cells :
                                      r \in FullRows(post) \/ c \in FullCols(post) }
                   ELSE grid' = Cleared(post)
        /\ clearTimeout =>
             /\ Head(timers).rowsToClear = FullRows(Head(timers).newGrid)
             /\ Head(timers).colsToClear = FullCols(Head(timers).newGrid)
             /\ grid' = Cleared(Head(timers).newGrid) ]_vars

\* A clear of a row and a column that share a cell has just been committed.
C3_Witness ==
    /\ lastOp \in {"clear_commit", "drop_cleared"}
    /\ grid = createEmptyGrid
    /\ score > 500

\* The number of filled cells of a block and of full lines of a grid.
Filled(block) == Cardinality(FilledCells(block.shape))
FullLines(g) == Cardinality(FullRows(g)) + Cardinality(FullCols(g))

\* C4: one accepted drop, once its clear (if any) is committed, increases the
\* score by exactly f + 10 * k * k, f the number of filled cells of the placed
\* shape and k the number of full rows plus full columns of the post-placement
\* grid; k = 0 adds only f.  (index.tsx adds f at the drop and 10 * k * k at the
\* commit of the lines found at the drop; nothing but a drop, a commit or a
\* reset changes the score.)
C4_DropScores ==
    [][ /\ \A o \in DropOrigins :
             AcceptedDrop(o[1], o[2]) =>
               LET post == PostPlacement(o[1], o[2])
                   k == FullLines(post)
               IN  IF variant = "index"
                   THEN /\ score' = score + Filled(draggedBlock)
                        /\ (k = 0) = (timers' = timers)
                        /\ k > 0 => timers'[Len(timers')].newGrid = post
                   ELSE score' = score + Filled(draggedBlock) + 10 * k * k
        /\ clearTimeout =>
             LET k == FullLines(Head(timers).newGrid)
             IN  k > 0 /\ score' = score + 10 * k * k
        /\ score' # score =>
             \/ ResetStep
             \/ clearTimeout
             \/ \E o \in DropOrigins : AcceptedDrop(o[1], o[2]) ]_vars

\* The block that completed row 0 and column 0 together has been placed and
\* its clear committed: 1 + 10 * 2 * 2 points on top of 467.
C4_Witness ==
    /\ lastOp \in {"clear_commit", "drop_cleared"}
    /\ drops = 1
    /\ score = 467 + 1 + 40

\* No block of the hand fits at any origin of g.
NoMove(g, hand) ==
    \A i \in 1 .. Len(hand) : \A row \in Cells : \A col \in Cells :
        ~Fits(hand[i].shape, row, col, g)

\* The step that ends an accepted drop: the drop itself when it found no full
\* line (and in part_000), the clear commit otherwise.
DropEnds ==
    \/ clearTimeout
    \/ \E o \in DropOrigins :
          AcceptedDrop(o[1], o[2]) /\ (variant = "part_000" \/ timers' = timers)

\* C5: at the end of every accepted drop the game-over flag is set to true if
\* and only if no block of the resulting hand can be placed at any of the 64
\* origins of the resulting grid (a flag that is already true stays true);
\* checkGameOver on an empty hand returns false.
C5_GameOverIffNoMove ==
    /\ [](checkGameOver(grid, <<>>) = FALSE)
    /\ [][ DropEnds => (isGameOver' = (isGameOver \/ NoMove(grid', blocks'))) ]_vars

\* A drop has just ended the game: the two blocks left fit nowhere.
C5_Witness ==
    /\ lastOp = "drop_placed"
    /\ isGameOver
    /\ Len(blocks) = 2
    /\ NoMove(grid, blocks)

\* C6: in every reachable state the grid has exactly 8 rows of 8 cells and
\* every cell value is an integer in [0, 7].
C6_GridShape ==
    /\ DOMAIN grid = Cells
    /\ \A r \in Cells : DOMAIN grid[r] = Cells
    /\ \A r \in Cells : \A c \in Cells : grid[r][c] \in 0 .. 7

\* The hammer has just destroyed a cell of a grid that holds a block of the
\* last colour.
C6_Witness ==
    /\ lastOp = "hammer_hit"
    /\ \E r \in Cells : \E c \in Cells : grid[r][c] = 7
    /\ \E o \in ClickCells : grid[o[1]][o[2]] = 0

\* C7: across drops, clear commits, hammer toggles and hammer applications the
\* score never decreases; the only step that lowers it is a reset, which sets
\* it to 0.
C7_ScoreMonotone ==
    [][ /\ score' >= score \/ ResetStep
        /\ ResetStep => score' = 0 ]_vars

\* A restart has just taken a positive score back to 0.
C7_Witness ==
    /\ lastOp = "reset"
    /\ drops > 0
    /\ score = 0

\* The hammer is applied to an occupied cell.
HammerHit ==
    \E o \in ClickCells :
        /\ isHammerModeActive
        /\ grid[o[1]][o[2]] > 0
        /\ handleGridCellClick(o[1], o[2])

\* C8: the hammer count is never negative, and between resets it changes only
\* in two ways: it decreases by exactly 1 when the hammer is applied to an
\* occupied cell, and it increases by exactly the number of multiples of 500
\* that the score crosses in a score update.
C8_HammerCount ==
    /\ [](hammers >= 0)
    /\ [][ \/ ResetStep
           \/ /\ HammerHit
              /\ hammers' = hammers - 1
              /\ score' = score
           \/ /\ ~HammerHit
              /\ hammers' = hammers + ((score' \div HAMMER_STEP) - (score \div HAMMER_STEP)) ]_vars

\* The one hammer was used and a score update crossing 500 has earned another.
C8_Witness ==
    /\ score >= HAMMER_STEP
    /\ hammers = 1
    /\ lastOp \in {"drop_placed", "drop_cleared", "clear_commit"}
    /\ \E o \in ClickCells : grid[o[1]][o[2]] = 0

\* C9: a drop of a block at an origin where canPlaceBlock is false changes
\* nothing: grid, hand, score, hammer count, hammer mode and game-over flag are
\* the same after the drop as before it.
C9_RejectedDropChangesNothing ==
    [][ \A o \in DropOrigins :
          ( /\ ~canPlaceBlock(draggedBlock, o[1], o[2], grid)
            /\ handleDrop(o[1], o[2]) )
          => UNCHANGED << grid, blocks, score, hammers, isHammerModeActive, isGameOver >>
      ]_vars

\* After an accepted drop a block of the hand was dropped where it does not
\* fit, with no hammer mode and no clear pending to refuse it.
C9_Witness ==
    /\ lastOp = "drop_rejected"
    /\ drops > 0
    /\ draggedBlock # null
    /\ \E i \in 1 .. Len(blocks) : blocks[i] = draggedBlock
    /\ ~isHammerModeActive
    /\ clearingCells = {}
    /\ \E o \in DropOrigins : ~canPlaceBlock(draggedBlock, o[1], o[2], grid)

\* C10: once the game is over, until the next reset, drops, hammer toggles and
\* hammer applications leave grid, hand, score, hammer count and hammer mode
\* unchanged, and the game-over flag stays true.
C10_NothingAcceptedWhenOver ==
    [][ ( /\ isGameOver
          /\ \/ handleHammerClick
             \/ \E o \in ClickCells : handleGridCellClick(o[1], o[2])
             \/ \E o \in DropOrigins : handleDrop(o[1], o[2]) )
        => /\ UNCHANGED << grid, blocks, score, hammers, isHammerModeActive >>
           /\ isGameOver' ]_vars

\* The state of a game that has just been reset.
FreshGame ==
    /\ grid = createEmptyGrid
    /\ score = 0
    /\ Len(blocks) = 3
    /\ hammers = 1
    /\ ~isHammerModeActive
    /\ ~isGameOver

\* C11: a restart produces a fresh active game (empty grid, score 0, a hand of
\* 3 newly drawn blocks, hammer count 1, hammer mode off, game-over flag
\* false), and the game stays in that state until the player's next gesture:
\* a clear commit scheduled before the restart does not alter the grid, the
\* score, the hand or the game-over flag after it.
C11_RestartGivesFreshGame ==
    [][ /\ ResetStep => (FreshGame' /\ blocks' \in generateBlocks(now))
        /\ (lastOp = "reset" /\ clearTimeout)
             => UNCHANGED << grid, score, blocks, isGameOver >> ]_vars

\* C12: applying the hammer to an occupied cell while hammer mode is active
\* sets that one cell to 0, decreases the hammer count by 1 and turns hammer
\* mode off, and changes nothing else: every other cell of the grid, the
\* score, the hand and the game-over flag are unchanged, and no line clear is
\* scheduled or committed and no terminal check is run.
C12_HammerHitFrame ==
    [][ \A o \in ClickCells :
          ( /\ isHammerModeActive
            /\ grid[o[1]][o[2]] > 0
            /\ handleGridCellClick(o[1], o[2]) )
          => /\ grid' = [r \in Cells |-> [c \in Cells |->
                            IF <<r, c>> = o THEN 0 ELSE grid[r][c]]]
             /\ hammers' = hammers - 1
             /\ isHammerModeActive' = FALSE
             /\ UNCHANGED << score, blocks, isGameOver, clearingCells, timers >>
      ]_vars

\* The last hammer has just destroyed a cell of a row that holds other blocks,
\* in a game with points scored.
C12_Witness ==
    /\ lastOp = "hammer_hit"
    /\ hammers = 0
    /\ ~isHammerModeActive
    /\ score > 0
    /\ \E o \in ClickCells :
          /\ grid[o[1]][o[2]] = 0
          /\ \E c \in Cells : grid[o[1]][c] > 0

\* C13: clicking an empty cell while hammer mode is active only turns hammer
\* mode off (grid and hammer count, and the rest of the game, unchanged);
\* clicking any cell while hammer mode is inactive changes no state at all.
C13_MissAndIdleClick ==
    [][ \A o \in ClickCells :
          ( /\ ~(isHammerModeActive /\ grid[o[1]][o[2]] > 0)
            /\ handleGridCellClick(o[1], o[2]) )
          => /\ isHammerModeActive' = FALSE
             /\ ~isHammerModeActive => UNCHANGED isHammerModeActive
             /\ UNCHANGED << grid, hammers, score, blocks, isGameOver, draggedBlock,
                             clearingCells, timers >> ]_vars

\* An empty cell has just been clicked in hammer mode: the mode is off and the
\* hammer is still there.
C13_Witness ==
    /\ lastOp = "hammer_miss"
    /\ ~isHammerModeActive
    /\ hammers = 1
    /\ \E o \in ClickCells : grid[o[1]][o[2]] = 0

\* C14: a click of the hammer button with hammer count 0 leaves hammer mode
\* unchanged and a click with hammer count > 0 flips it; hammer mode is never
\* active with hammer count 0, so toggling off is always permitted; and after
\* the last hammer is used the count, hence any activation, comes back only
\* with a score update that crosses a multiple of 500 (or with a reset).
C14_HammerToggle ==
    /\ [](isHammerModeActive => hammers > 0)
    /\ [][ /\ handleHammerClick
               => /\ isHammerModeActive' =
                        (IF hammers > 0 THEN ~isHammerModeActive ELSE isHammerModeActive)
                  /\ UNCHANGED << grid, hammers, score, blocks, isGameOver >>
           /\ (hammers = 0 /\ hammers' > 0)
               => \/ ResetStep
                  \/ (score' \div HAMMER_STEP) > (score \div HAMMER_STEP) ]_vars

\* The hammer button has just been clicked with no hammer left: hammer mode
\* stays off.
C14_Witness ==
    /\ lastOp = "hammer_disabled"
    /\ hammers = 0
    /\ ~isHammerModeActive

\* The hand without its i-th block, order kept.
RemoveAt(hand, i) == SubSeq(hand, 1, i - 1) \o SubSeq(hand, i + 1, Len(hand))

\* The block b is one of the hand.
InHand(b, hand) == \E i \in 1 .. Len(hand) : hand[i] = b

\* next is the hand that placing the block b of the hand must leave: the hand
\* minus b when it holds more than one block, 3 newly drawn blocks otherwise.
HandAfterPlacing(hand, b, next) ==
    IF Len(hand) > 1
    THEN \E i \in 1 .. Len(hand) : hand[i] = b /\ next = RemoveAt(hand, i)
    ELSE Len(next) = 3 /\ next \in generateBlocks(now)

\* C15: an accepted drop of a block of a hand of n blocks leaves a hand of
\* n - 1 blocks (the same blocks minus the placed one, order kept) when n > 1
\* and a hand of exactly 3 newly drawn blocks when n = 1 (in index.tsx a drop
\* that completes a line hands that hand to its clear commit, which installs
\* it); whenever no clear is pending after the first reset, the hand holds
\* between 1 and 3 blocks.
C15_HandAfterDrop ==
    /\ []((mounted /\ timers = <<>>) => Len(blocks) \in 1 .. 3)
    /\ [][ /\ \A o \in DropOrigins :
                 (AcceptedDrop(o[1], o[2]) /\ InHand(draggedBlock, blocks)) =>
                   IF variant = "part_000" \/ timers' = timers
                   THEN HandAfterPlacing(blocks, draggedBlock, blocks')
                   ELSE LET t == timers'[Len(timers')]
                        IN  /\ blocks' = blocks
                            /\ t.shouldGenerateNewBlocks = (Len(blocks) = 1)
                            /\ Len(blocks) > 1 =>
                                  HandAfterPlacing(blocks, draggedBlock, t.nextBlocks)
           /\ clearTimeout =>
                 IF Head(timers).shouldGenerateNewBlocks
                 THEN Len(blocks') = 3 /\ blocks' \in generateBlocks(now)
                 ELSE blocks' = Head(timers).nextBlocks ]_vars

\* C16: every block is placed at most once: each accepted drop places a block
\* that is a member of the hand at the moment of the drop, so a block that was
\* placed before (and left the hand) is never written to the grid again.
C16_PlacedBlockIsInHand ==
    [][ \A o \in DropOrigins :
          AcceptedDrop(o[1], o[2]) => InHand(draggedBlock, blocks) ]_vars

\* C17: the blocks of a hand carry pairwise distinct ids, so the filter of
\* handleDrop removes exactly one block.
C17_DistinctIds ==
    \A i \in 1 .. Len(blocks) : \A j \in 1 .. Len(blocks) :
        i # j => blocks[i].id # blocks[j].id

\* C19: a cell destroyed by the hammer stays empty until a later accepted drop
\* writes it: when the hammer is applied while a line clear is pending, the
\* clear commit that follows leaves every empty cell of the grid empty (it
\* works on the current grid, not on a snapshot taken before the hammer use).
C19_HammeredCellStaysEmpty ==
    [][ (lastOp = "hammer_hit" /\ clearTimeout)
        => \A r \in Cells : \A c \in Cells :
              grid[r][c] = 0 => grid'[r][c] = 0 ]_vars

\* A game restarted while a clear was pending (index.tsx): in the game of
\* Crowded the 1x1 block was dropped at (3, 6) and, still held as
\* draggedBlock, again at (3, 3), which scheduled the clear of row 3; the
\* restart followed, and two 1x3 blocks of the new hand were dropped at (0, 0)
\* and (0, 3), all before the timeout fired.
StaleClear ==
    LET old == handOf(<<"1x1", "3x3">>)
        g0 == playMoves(newGame, Crowded).grid
        newGrid == placedGrid(old[1], 3, 3, placedGrid(old[1], 3, 6, g0))
    IN  [newGrid |-> newGrid,
         rowsToClear |-> rowsToClear(newGrid),
         colsToClear |-> colsToClear(newGrid),
         nextBlocks |-> filterOut(<<old[2]>>, old[1].id),
         shouldGenerateNewBlocks |-> FALSE]

InitRestarted ==
    LET st == playMoves(newGame, << <<"1x3", 0, 0>>, <<"1x3", 0, 3>> >>)
    IN  /\ variant = "index"
        /\ sync = <<>>
        /\ hammerUses = 0
        /\ dropGain = [points |-> 0, raised |-> 0,
                       pending |-> << [points |-> 1, raised |-> 0] >>]
        /\ mounted = TRUE
        /\ grid = st.grid
        /\ blocks = << getRandomBlock("1x2", 1, 2) >>
        /\ score = st.score
        /\ hammers = st.hammers
        /\ isGameOver = FALSE
        /\ draggedBlock = null
        /\ isHammerModeActive = FALSE
        /\ clearingCells = {}
        /\ timers = << StaleClear >>
        /\ now = 2
        /\ drops = 0
        /\ lastOp = "resume"

NextRestarted ==
    \/ \E i \in 1 .. 3 : handleDragStart(i) /\ gainKept /\ UNCHANGED << sync, hammerUses >>
    \/ handleDragEnd /\ gainKept /\ UNCHANGED << sync, hammerUses >>
    \/ \E o \in DropOrigins :
          /\ handleDrop(o[1], o[2])
          /\ gainOfDrop(o[1], o[2])
          /\ UNCHANGED << sync, hammerUses >>
    \/ clearTimeout /\ gainOfCommit /\ UNCHANGED << sync, hammerUses >>
    \/ handleHammerClick /\ gainKept /\ UNCHANGED << sync, hammerUses >>
    \/ \E o \in ClickCells :
          /\ handleGridCellClick(o[1], o[2])
          /\ hammerUses' = hammerUses + applied(o[1], o[2])
          /\ gainKept /\ UNCHANGED sync

SpecRestarted == InitRestarted /\ [][NextRestarted]_vars

\* C20: in index.tsx a drop made while a line clear is pending (clearingCells
\* non-empty) or while hammer mode is active is rejected with no change to
\* grid, hand, score or hammer count, so at most one clear commit is pending
\* at any time.
C20_OneClearPending ==
    /\ [](Len(timers) <= 1)
    /\ [][ \A o \in DropOrigins :
              ( /\ variant = "index"
                /\ clearingCells # {} \/ isHammerModeActive
                /\ handleDrop(o[1], o[2]) )
              => UNCHANGED << grid, blocks, score, hammers >> ]_vars

----------------------------------------------------------------------------
\* The two revisions side by side

\* The handlers of src/unnamed/part_000 on a record s of its state.
syncDragStart(s, block) == [s EXCEPT !.draggedBlock = block]

\* The k-th call of generateBlocks, the same for both revisions.
drawn(k) == CHOOSE h \in generateBlocks(k) : h[3].shape = BLOCK_SHAPES["1x2"].shape

syncReset(s) ==
    [s EXCEPT !.grid = createEmptyGrid, !.blocks = drawn(s.now), !.now = s.now + 1,
              !.score = 0, !.isGameOver = FALSE, !.hammers = 1,
              !.isHammerModeActive = FALSE]

syncDrop(s, row, col) ==
    IF \/ s.draggedBlock = null
       \/ ~canPlaceBlock(s.draggedBlock, row, col, s.grid)
       \/ s.isHammerModeActive
    THEN s
    ELSE LET newGrid == placedGrid(s.draggedBlock, row, col, s.grid)
             rows == rowsToClear(newGrid)
             cols == colsToClear(newGrid)
             linesCleared == Cardinality(rows) + Cardinality(cols)
             points == placementPoints(s.draggedBlock)
                         + (IF linesCleared > 0 THEN clearPoints(linesCleared) ELSE 0)
             cleared == IF linesCleared > 0 THEN gridAfterClears(newGrid, rows, cols)
                        ELSE newGrid
             filtered == filterOut(s.blocks, s.draggedBlock.id)
             newBlocks == IF Len(filtered) = 0 THEN drawn(s.now) ELSE filtered
         IN  [s EXCEPT !.grid = cleared,
                       !.score = newScoreOf(s.score, points),
                       !.hammers = newHammersOf(s.hammers, s.score, points),
                       !.blocks = newBlocks,
                       !.now = IF Len(filtered) = 0 THEN s.now + 1 ELSE s.now,
                       !.draggedBlock = null,
                       !.isGameOver = (s.isGameOver \/ checkGameOver(cleared, newBlocks))]

syncHammerClick(s) ==
    IF s.hammers > 0
    THEN [s EXCEPT !.isHammerModeActive = ~s.isHammerModeActive]
    ELSE s

syncGridCellClick(s, row, col) ==
    IF s.isHammerModeActive /\ s.grid[row][col] > 0
    THEN [s EXCEPT !.grid = [s.grid EXCEPT ![row][col] = 0],
                   !.hammers = s.hammers - 1,
                   !.isHammerModeActive = FALSE]
    ELSE IF s.isHammerModeActive
         THEN [s EXCEPT !.isHammerModeActive = FALSE]
         ELSE s

\* Both revisions resume the same game under way.
InitBoth ==
    /\ variant = "index"
    /\ mounted = TRUE
    /\ isGameOver = FALSE
    /\ draggedBlock = null
    /\ isHammerModeActive = FALSE
    /\ clearingCells = {}
    /\ timers = <<>>
    /\ drops = 0
    /\ now = 1
    /\ lastOp = "resume"
    /\ \E p \in Played :
          LET st == playMoves(newGame, p.moves)
          IN  /\ grid = st.grid
              /\ blocks = handOf(p.hand)
              /\ score = st.score
              /\ hammers = st.hammers
    /\ sync = [grid |-> grid, blocks |-> blocks, score |-> score,
               isGameOver |-> isGameOver, draggedBlock |-> draggedBlock,
               hammers |-> hammers, isHammerModeActive |-> isHammerModeActive,
               now |-> now]
    /\ hammerUses = 0
    /\ dropGain = noGain

\* A call of generateBlocks in index.tsx returns the hand of its number.
SameDraw == now' # now => blocks' = drawn(now)

\* The gestures of the player, delivered to both revisions.  A block is
\* dragged when both display it, and dropped when both hold it as
\* draggedBlock; the restart button is clicked when both show it.
BothDragStart(i) ==
    /\ i \in 1 .. Len(blocks)
    /\ \E j \in 1 .. Len(sync.blocks) : sync.blocks[j] = blocks[i]
    /\ handleDragStart(i)
    /\ sync' = syncDragStart(sync, blocks[i])
    /\ gainKept /\ UNCHANGED hammerUses

\* part_000 has no onDragEnd.
BothDragEnd == handleDragEnd /\ gainKept /\ UNCHANGED << sync, hammerUses >>

BothDrop(row, col) ==
    /\ draggedBlock = sync.draggedBlock
    /\ handleDrop(row, col)
    /\ SameDraw
    /\ sync' = syncDrop(sync, row, col)
    /\ gainOfDrop(row, col)
    /\ UNCHANGED hammerUses

BothHammerClick ==
    /\ handleHammerClick
    /\ sync' = syncHammerClick(sync)
    /\ gainKept /\ UNCHANGED hammerUses

BothGridCellClick(row, col) ==
    /\ handleGridCellClick(row, col)
    /\ sync' = syncGridCellClick(sync, row, col)
    /\ hammerUses' = hammerUses + applied(row, col)
    /\ gainKept

BothRestart ==
    /\ sync.isGameOver
    /\ handleRestartClick
    /\ SameDraw
    /\ sync' = syncReset(sync)
    /\ hammerUses' = 0
    /\ gainKept

\* The clear timeout exists in index.tsx only.
BothCommit ==
    clearTimeout /\ SameDraw /\ gainOfCommit /\ UNCHANGED << sync, hammerUses >>

NextBoth ==
    \/ \E i \in 1 .. 3 : BothDragStart(i)
    \/ BothDragEnd
    \/ \E o \in DropOrigins : BothDrop(o[1], o[2])
    \/ BothHammerClick
    \/ \E o \in ClickCells : BothGridCellClick(o[1], o[2])
    \/ BothRestart
    \/ BothCommit

SpecBoth == InitBoth /\ [][NextBoth]_vars

\* C18: the animation delay does not affect the result: after every sequence
\* of gestures (drops, hammer toggles, hammer applications, restarts), once
\* all pending clears have committed, src/index.tsx has the same grid, hand
\* size, score, hammer count and game-over flag as src/unnamed/part_000 on the
\* same gestures, including gestures made while a clear was pending.
C18_DelayDoesNotMatter ==
    timers = <<>> =>
        /\ grid = sync.grid
        /\ Len(blocks) = Len(sync.blocks)
        /\ score = sync.score
        /\ hammers = sync.hammers
        /\ isGameOver = sync.isGameOver

----------------------------------------------------------------------------
\* The clear timeout fires

\* src/index.tsx with its timer: a timeout that was scheduled runs (the browser
\* fires every timer of a page that stays open).  The games resumed are those
\* of Played other than Crowded, and the game not yet mounted.
InitLive ==
    /\ Init
    /\ variant = "index"
    /\ grid # playMoves(newGame, Crowded).grid

SpecLive ==
    InitLive /\ [][Next]_vars /\ WF_vars(clearTimeout /\ gainOfCommit /\ UNCHANGED << sync, hammerUses >>)

\* C21: every drop that fills at least one row or column is eventually
\* followed by its clear commit: the timeout fires, and its step empties
\* clearingCells (drops are accepted again), zeroes the full lines of the grid
\* of the drop, adds the clear points, installs the hand (the rest, or 3 new
\* blocks) and runs the terminal check.
C21_ClearCommits ==
    /\ (timers # <<>>) ~> (lastOp = "clear_commit" /\ clearingCells = {})
    /\ [][ clearTimeout =>
             LET t == Head(timers)
                 k == FullLines(t.newGrid)
             IN  /\ clearingCells' = {}
                 /\ timers' = Tail(timers)
                 /\ grid' = Cleared(t.newGrid)
                 /\ score' = score + 10 * k * k
                 /\ IF t.shouldGenerateNewBlocks
                    THEN Len(blocks') = 3
                    ELSE blocks' = t.nextBlocks
                 /\ isGameOver' = (isGameOver \/ NoMove(grid', blocks')) ]_vars

\* The clear of a drop has been committed in index.tsx: nothing is pending
\* and the next drop can be accepted.
C21_Witness ==
    /\ variant = "index"
    /\ lastOp = "clear_commit"
    /\ clearingCells = {}
    /\ timers = <<>>
    /\ drops < MaxDrops

\* C22: whenever no line clear is pending (clearingCells is empty), the grid
\* contains no completely filled row and no completely filled column.
C22_NoFullLineAtRest ==
    clearingCells = {} => (FullRows(grid) = {} /\ FullCols(grid) = {})

\* A line was cleared, nothing is pending, and what is left of the grid holds
\* blocks.
C22_Witness ==
    /\ lastOp \in {"clear_commit", "drop_cleared"}
    /\ clearingCells = {}
    /\ timers = <<>>
    /\ grid # createEmptyGrid

\* C23: in every reachable state, hammer count = 1 + floor(score / 500) -
\* (number of hammer applications to occupied cells since the last reset).
C23_HammerBalance ==
    hammers = 1 + (score \div HAMMER_STEP) - hammerUses

\* One hammer was applied and one was earned at 500 points since the reset.
C23_Witness ==
    /\ hammerUses = 1
    /\ score >= HAMMER_STEP
    /\ hammers = 1

\* C24: hammer mode is active only while at least one hammer is available:
\* in every reachable state, isHammerModeActive = TRUE implies hammers >= 1.
C24_ActiveNeedsHammer == isHammerModeActive => hammers >= 1

\* Hammer mode has been switched on again with the one hammer that was earned
\* after the first one was used.
C24_Witness ==
    /\ isHammerModeActive
    /\ hammers = 1
    /\ hammerUses = 1

\* C25: whenever the game-over flag is true, no piece of the current hand can
\* be placed at any origin of the current grid.
C25_GameOverMeansNoMove == isGameOver => NoMove(grid, blocks)

\* The game with the games of PlayedHigh under way.
InitGain == InitFrom(PlayedHigh)

SpecGain == InitGain /\ [][Next]_vars

\* The most one drop can add: 9 placed cells and 10 * 6 * 6 for 6 lines.
MaxDropPoints == 9 + 10 * 6 * 6

\* C26: a single accepted drop adds at most 369 points (at most 9 placed cells
\* plus 10 * 6 * 6 for at most 3 rows and 3 columns cleared), which is below
\* 500, so one drop, counting both its placement points and its clear points,
\* raises the hammer count by at most 1.
C26_DropGain ==
    [][ /\ MaxDropPoints = 369
        /\ MaxDropPoints < HAMMER_STEP
        /\ dropGain'.points <= MaxDropPoints
        /\ dropGain'.raised <= 1
        /\ \A i \in 1 .. Len(dropGain'.pending) :
              /\ dropGain'.pending[i].points <= 9
              /\ dropGain'.pending[i].raised <= 1
        /\ \A o \in DropOrigins :
              AcceptedDrop(o[1], o[2]) =>
                LET post == PostPlacement(o[1], o[2])
                    f == Filled(draggedBlock)
                    k == FullLines(post)
                IN  /\ f <= 9
                    /\ Cardinality(FullRows(post)) <= 3
                    /\ Cardinality(FullCols(post)) <= 3
                    /\ f + 10 * k * k <= MaxDropPoints
                    /\ ((score + f + 10 * k * k) \div HAMMER_STEP)
                          - (score \div HAMMER_STEP) <= 1
                    /\ hammers' - hammers <= 1 ]_vars

\* A drop of the 3x3 block has cleared three rows and three columns and its
\* 369 points have crossed a multiple of 500: one hammer was added.
C26_Witness ==
    /\ dropGain.points = MaxDropPoints
    /\ dropGain.raised = 1
    /\ dropGain.pending = <<>>

====
